---- MODULE Spec2Model ----
(***************************************************************************)
(* Model of two units of the repository:                                   *)
(*   - From.run, the import-from rewrite rule                              *)
(*     (src/airtolphin/rules/import_from.py);                              *)
(*   - the convert subcommand of main (src/airphin/cli/command.py).        *)
(* Syntax-tree nodes are records tagged by `type`, exactly the fields the  *)
(* rule reads: Name.value, Attribute.value/.attr, ImportFrom.module/.names,*)
(* ImportAlias.name/.asname.                                               *)
(***************************************************************************)
EXTENDS Integers, Sequences, FiniteSets

VARIABLES
    input,          \* the statement handed to From.__init__
    node,           \* self.node of the From object
    status,         \* "constructed", "returned" or "raised"
    exc,            \* the exception run() ended with, "none" otherwise
    ret,            \* the value run() returned, NoneVal before it returns
    gen,            \* how many From objects have been constructed in a row
    fs,             \* the file system main looks at: path -> kind
    sources,        \* args.sources
    filter,         \* args.filter
    pc,             \* position of main inside the convert branch
    idx,            \* index of the source the for loop is at
    convert_files,  \* the list main collects
    runner,         \* "none", "built" by Runner(config), "ran" after with_files
    handed,         \* the list passed to runner.with_files
    error,          \* the exception main ended with, "none" otherwise
    exit_code       \* process exit status, -1 while main is running

fromVars == <<input, node, status, exc, ret, gen>>
mainVars == <<fs, sources, filter, pc, idx, convert_files, runner, handed,
              error, exit_code>>
vars == <<input, node, status, exc, ret, gen, fs, sources, filter, pc, idx,
          convert_files, runner, handed, error, exit_code>>

(***************************************************************************)
(* Bounds                                                                  *)
(***************************************************************************)
MaxNames == 2       \* imported names per statement
MaxDepth == 3       \* components of a dotted module reference
MaxRuns == 2        \* From objects constructed one after the other
MaxSources == 2     \* paths on the command line

(***************************************************************************)
(* Syntax-tree nodes                                                       *)
(***************************************************************************)
NoneVal == [type |-> "None"]

Name(v) == [type |-> "Name", value |-> v]

Attribute(v, a) == [type |-> "Attribute", value |-> v, attr |-> Name(a)]

ImportAlias(n, a) == [type |-> "ImportAlias", name |-> Name(n), asname |-> a]

AsName(a) == [type |-> "AsName", name |-> Name(a)]

ImportStar == [type |-> "ImportStar"]

NameTuple(items) == [type |-> "Tuple", items |-> items]

ImportFrom(m, n) == [type |-> "ImportFrom", module |-> m, names |-> n]

(***************************************************************************)
(* The statements From is constructed with                                 *)
(***************************************************************************)
Roots == {"airflow", "foo"}

Mids == {"operators", "foo"}

Lasts == {"airflow", "operators", "bash", "dummy_operator", "dummy",
          "spark_sql_operator", "python_operator", "foo"}

RECURSIVE Prefixes(_)
Prefixes(d) ==
    IF d = 1 THEN {Name(r) : r \in Roots}
    ELSE {Attribute(p, m) : p \in Prefixes(d - 1), m \in Mids}

Chains(d) == {Attribute(p, c) : p \in Prefixes(d - 1), c \in Lasts}

Modules ==
    {NoneVal} \cup {Name(r) : r \in Roots}
              \cup UNION {Chains(d) : d \in 2..MaxDepth}

ImportedNames == {"DAG", "BashOperator", "DummyOperator", "SparkSqlOperator",
                  "PythonOperator", "path"}

AsNames == {NoneVal, AsName("D")}

Aliases == {ImportAlias(n, a) : n \in ImportedNames, a \in AsNames}

RECURSIVE SeqsOver(_, _)
SeqsOver(S, n) ==
    IF n = 0 THEN {<<>>}
    ELSE {Append(q, x) : q \in SeqsOver(S, n - 1), x \in S}

NamesValues ==
    {ImportStar} \cup {NameTuple(q) : q \in UNION {SeqsOver(Aliases, n) : n \in 1..MaxNames}}

Statements == {ImportFrom(m, n) : m \in Modules, n \in NamesValues}

(***************************************************************************)
(* From.run                                                                *)
(***************************************************************************)
ShellLastsWithoutDummy == {"bash", "dummy_operator"}

ShellLasts == {"bash", "dummy_operator", "dummy"}

SqlLasts == {"spark_sql_operator"}

PythonLasts == {"python_operator"}

ShellModule == Attribute(Attribute(Name("pydolphinscheduler"), "tasks"), "shell")

SqlModule == Attribute(Attribute(Name("pydolphinscheduler"), "tasks"), "sql")

PythonModule == Attribute(Attribute(Name("pydolphinscheduler"), "tasks"), "python")

ProcessDefinitionModule ==
    Attribute(Attribute(Name("pydolphinscheduler"), "core"), "process_definition")

\* `module.attr.value in lasts and module.value.attr.value == "operators"`:
\* `and` evaluates its right side only when the left side is true, and a Name
\* has no field attr.
AttrTest(module, lasts) ==
    IF module.attr.value \in lasts
    THEN IF module.value.type = "Attribute"
         THEN IF module.value.attr.value = "operators" THEN "match" ELSE "nomatch"
         ELSE "AttributeError"
    ELSE "nomatch"

with_changes_module(n, m) == [n EXCEPT !.module = m]

with_changes_names_appending(n, alias) ==
    [n EXCEPT !.names = NameTuple(Append(n.names.items, alias))]

with_changes_names(n, alias) == [n EXCEPT !.names = NameTuple(<<alias>>)]

\* One `if` of the Attribute branch: o is the outcome so far, module the
\* module read at the top of run.
AttrRule(o, module, lasts, target) ==
    IF o.exc # "none" THEN o
    ELSE LET t == AttrTest(module, lasts) IN
         IF t = "AttributeError" THEN [node |-> o.node, exc |-> "AttributeError"]
         ELSE IF t = "match"
              THEN [node |-> with_changes_module(o.node, target), exc |-> "none"]
              ELSE o

ModulePhase(n) ==
    LET module == n.module
        o0 == [node |-> n, exc |-> "none"]
    IN  IF module.type = "Attribute"
        THEN AttrRule(AttrRule(AttrRule(o0, module, ShellLasts, ShellModule),
                               module, SqlLasts, SqlModule),
                      module, PythonLasts, PythonModule)
        ELSE IF module.type = "Name"
             THEN IF module.value = "airflow"
                  THEN [node |-> with_changes_module(n, ProcessDefinitionModule),
                        exc |-> "none"]
                  ELSE o0
             ELSE o0

\* The body of the for loop for one import_alias; cur is self.node.
AliasStep(import_alias, cur) ==
    LET v == import_alias.name.value
        a == IF v = "DAG"
             THEN with_changes_names(cur, ImportAlias("ProcessDefinition", NoneVal))
             ELSE cur
    IN  IF v \in {"BashOperator", "DummyOperator"}
        THEN with_changes_names(a, ImportAlias("Shell", NoneVal))
        ELSE IF v = "SparkSqlOperator"
             THEN with_changes_names(a, ImportAlias("Sql", NoneVal))
             ELSE IF v = "PythonOperator"
                  THEN with_changes_names(a, ImportAlias("Python", NoneVal))
                  ELSE a

\* The for loop walks the tuple self.node.names had when the loop started.
RECURSIVE NamesLoop(_, _, _)
NamesLoop(items, i, cur) ==
    IF i > Len(items) THEN cur
    ELSE NamesLoop(items, i + 1, AliasStep(items[i], cur))

NamesPhase(n) ==
    IF n.names.type = "ImportStar"
    THEN [node |-> n, exc |-> "TypeError"]
    ELSE [node |-> NamesLoop(n.names.items, 1, n), exc |-> "none"]

RunOutcome(n) ==
    LET m == ModulePhase(n) IN
    IF m.exc # "none" THEN m ELSE NamesPhase(m.node)

InitFrom ==
    /\ input \in Statements
    /\ node = input
    /\ status = "constructed"
    /\ exc = "none"
    /\ ret = NoneVal
    /\ gen = 1

RunReturns ==
    /\ status = "constructed"
    /\ RunOutcome(node).exc = "none"
    /\ node' = RunOutcome(node).node
    /\ ret' = RunOutcome(node).node
    /\ status' = "returned"
    /\ UNCHANGED <<input, exc, gen>>

RunRaises ==
    /\ status = "constructed"
    /\ RunOutcome(node).exc # "none"
    /\ node' = RunOutcome(node).node
    /\ exc' = RunOutcome(node).exc
    /\ status' = "raised"
    /\ UNCHANGED <<input, ret, gen>>

\* From(result): the rule is applied again to what it returned.
Reconstruct ==
    /\ status = "returned"
    /\ gen < MaxRuns
    /\ input' = ret
    /\ node' = ret
    /\ status' = "constructed"
    /\ ret' = NoneVal
    /\ gen' = gen + 1
    /\ UNCHANGED exc

MainIdle ==
    /\ fs = <<>>
    /\ sources = <<>>
    /\ filter = NoneVal
    /\ pc = "idle"
    /\ idx = 0
    /\ convert_files = <<>>
    /\ runner = "none"
    /\ handed = <<>>
    /\ error = "none"
    /\ exit_code = -1

Init == InitFrom /\ MainIdle

Next ==
    \/ RunReturns /\ UNCHANGED mainVars
    \/ RunRaises /\ UNCHANGED mainVars
    \/ Reconstruct /\ UNCHANGED mainVars

Spec == Init /\ [][Next]_vars

(***************************************************************************)
(* Properties of From.run                                                  *)
(***************************************************************************)
Dotted(a, b, c) == Attribute(Attribute(Name(a), b), c)

EndsIn(m, lasts) ==
    /\ m.type = "Attribute"
    /\ m.value.type = "Attribute"
    /\ m.value.attr.value = "operators"
    /\ m.attr.value \in lasts

IsBareAirflow(m) == m.type = "Name" /\ m.value = "airflow"

SourceShape(m) ==
    \/ EndsIn(m, {"bash", "dummy_operator", "dummy", "spark_sql_operator",
                  "python_operator"})
    \/ IsBareAirflow(m)

ExpectedModule(m) ==
    IF EndsIn(m, {"bash", "dummy_operator", "dummy"})
    THEN Dotted("pydolphinscheduler", "tasks", "shell")
    ELSE IF EndsIn(m, {"spark_sql_operator"})
         THEN Dotted("pydolphinscheduler", "tasks", "sql")
         ELSE IF EndsIn(m, {"python_operator"})
              THEN Dotted("pydolphinscheduler", "tasks", "python")
              ELSE IF IsBareAirflow(m)
                   THEN Dotted("pydolphinscheduler", "core", "process_definition")
                   ELSE m

SourceNames == {"DAG", "BashOperator", "DummyOperator", "SparkSqlOperator",
                "PythonOperator"}

ExpectedName(v) ==
    IF v = "DAG" THEN "ProcessDefinition"
    ELSE IF v \in {"BashOperator", "DummyOperator"} THEN "Shell"
    ELSE IF v = "SparkSqlOperator" THEN "Sql"
    ELSE IF v = "PythonOperator" THEN "Python"
    ELSE v

IsTuple(n) == n.names.type = "Tuple"

\* C1: once run has ended, the module of self.node (the statement run
\* returns) is decided by the shape of the module the statement was
\* constructed with: operators.bash / .dummy_operator / .dummy give
\* pydolphinscheduler.tasks.shell, operators.spark_sql_operator gives
\* pydolphinscheduler.tasks.sql, operators.python_operator gives
\* pydolphinscheduler.tasks.python, bare airflow gives
\* pydolphinscheduler.core.process_definition; one rewrite at most.
C1_ModuleRewrittenByShape ==
    status # "constructed" =>
        /\ SourceShape(input.module) => node.module = ExpectedModule(input.module)
        /\ node.module \in {input.module, ExpectedModule(input.module)}
        /\ status = "returned" => ret.module = node.module

C1_Witness ==
    /\ status = "returned"
    /\ input.module = Dotted("airflow", "operators", "dummy")
    /\ ret.module = Dotted("pydolphinscheduler", "tasks", "shell")

\* C2: for a statement importing exactly one name, run returns a statement
\* whose only name is the table's image of the imported name and whose module
\* is the image of the module, whatever the other part is.
C2_IndependentRewrites ==
    (status # "constructed" /\ IsTuple(input) /\ Len(input.names.items) = 1) =>
        /\ status = "returned"
        /\ ret.module = ExpectedModule(input.module)
        /\ IsTuple(ret)
        /\ Len(ret.names.items) = 1
        /\ ret.names.items[1].name.value
               = ExpectedName(input.names.items[1].name.value)

\* C3: in a statement importing several names, every name that matches no
\* name rule is still imported, unchanged, by the statement run returns.
C3_UnmatchedNamesKept ==
    (status = "returned" /\ IsTuple(input) /\ Len(input.names.items) > 1) =>
        \A i \in 1..Len(input.names.items) :
            input.names.items[i].name.value \notin SourceNames =>
                \E j \in 1..Len(ret.names.items) :
                    ret.names.items[j] = input.names.items[i]

\* C4: the statement run returns has as many entries as the original, in the
\* same order, entry i carrying the rewrite of the original entry i's name.
C4_EntryWiseRewrite ==
    (status = "returned" /\ IsTuple(input)) =>
        /\ Len(ret.names.items) = Len(input.names.items)
        /\ \A i \in 1..Len(input.names.items) :
               ret.names.items[i].name.value
                   = ExpectedName(input.names.items[i].name.value)

\* C5: run applied to a statement run returned returns that statement
\* unchanged.
C5_Idempotent ==
    (gen > 1 /\ status # "constructed") =>
        /\ status = "returned"
        /\ ret = input

C5_Witness ==
    /\ gen > 1
    /\ status = "returned"
    /\ ret = input
    /\ input.module = Dotted("pydolphinscheduler", "tasks", "shell")
    /\ input.names = NameTuple(<<ImportAlias("Shell", NoneVal)>>)

\* C6: a statement whose module is none of the four source shapes and none of
\* whose imported names is a source name is returned unchanged.
C6_UnmatchedPassthrough ==
    (/\ status # "constructed"
     /\ ~SourceShape(input.module)
     /\ IsTuple(input) =>
            \A i \in 1..Len(input.names.items) :
                input.names.items[i].name.value \notin SourceNames) =>
        /\ status = "returned"
        /\ ret = input

\* C9: a rewritten entry keeps the alias of the entry it replaces.
C9_AliasKept ==
    (status = "returned" /\ IsTuple(input)) =>
        \A i \in 1..Len(input.names.items) :
            (/\ input.names.items[i].name.value \in SourceNames
             /\ input.names.items[i].asname # NoneVal) =>
                \E j \in 1..Len(ret.names.items) :
                    /\ ret.names.items[j].name.value
                           = ExpectedName(input.names.items[i].name.value)
                    /\ ret.names.items[j].asname = input.names.items[i].asname

\* C10: run never raises: every statement it is given ends in a return.
C10_NeverRaises == status # "raised"

(***************************************************************************)
(* main, convert subcommand                                                *)
(***************************************************************************)
Path(parent, name, ext) == [parent |-> parent, name |-> name, ext |-> ext]

CWD == Path("", ".", "")

TopPaths == {Path(".", "a.py", "py"), Path(".", "b.txt", "txt"), Path(".", "d", "")}

SubPaths == {Path("d", "x.py", "py"), Path("d", "y.txt", "txt")}

Paths == {CWD} \cup TopPaths \cup SubPaths

Kinds == {"missing", "file", "dir"}

\* A path exists only inside an existing directory; the working directory
\* always exists.
FileSystems ==
    {f \in [Paths -> Kinds] :
        /\ f[CWD] = "dir"
        /\ \A p \in SubPaths :
               f[p] # "missing" => f[Path(".", p.parent, "")] = "dir"}

Pattern(recursive, ext) == [recursive |-> recursive, ext |-> ext]

PATH_PYTHON == Pattern(TRUE, "py")

Filters == {PATH_PYTHON} \cup {Pattern(r, e) : r \in BOOLEAN, e \in {"py", "txt"}}

SourceLists == UNION {SeqsOver(Paths, n) : n \in 0..MaxSources}

\* nargs="*" with default [Path(".")]
ParseSources(given) == IF given = <<>> THEN <<CWD>> ELSE given

PathExistsAlways(f, p) == TRUE

PathExists(f, p) == f[p] # "missing"

IsFile(f, p) == f[p] = "file"

IsChild(p, dir) == p # CWD /\ p.parent = dir.name

IsUnder(p, dir) ==
    \/ IsChild(p, dir)
    \/ \E q \in Paths : IsChild(q, dir) /\ IsChild(p, q)

\* pattern "*.ext" or "**/*.ext", matched on the file name
MatchesName(p, pat) == p.ext = pat.ext

GlobUnfiltered(f, dir, pat) ==
    {p \in Paths :
        /\ f[p] # "missing"
        /\ f[dir] = "dir"
        /\ IF pat.recursive THEN IsUnder(p, dir) ELSE IsChild(p, dir)}

\* path.glob(args.filter): the existing entries below dir the pattern selects
Glob(f, dir, pat) ==
    {p \in Paths :
        /\ f[p] # "missing"
        /\ f[dir] = "dir"
        /\ IF pat.recursive THEN IsUnder(p, dir) ELSE IsChild(p, dir)
        /\ MatchesName(p, pat)}

\* the orders in which an iterator may yield the elements of S
Orders(S) ==
    {q \in SeqsOver(S, Cardinality(S)) : \A x \in S : \E i \in 1..Len(q) : q[i] = x}

FromIdle ==
    /\ input = NoneVal
    /\ node = NoneVal
    /\ status = "idle"
    /\ exc = "none"
    /\ ret = NoneVal
    /\ gen = 0

MainStart ==
    /\ fs \in FileSystems
    /\ sources = <<>>
    /\ filter = NoneVal
    /\ pc = "parse"
    /\ idx = 0
    /\ convert_files = <<>>
    /\ runner = "none"
    /\ handed = <<>>
    /\ error = "none"
    /\ exit_code = -1

ParseArgs ==
    /\ pc = "parse"
    /\ \E given \in SourceLists : sources' = ParseSources(given)
    /\ \E pat \in Filters : filter' = pat
    /\ pc' = "loop"
    /\ idx' = 1
    /\ UNCHANGED <<fs, convert_files, runner, handed, error, exit_code>>

LoopMissing ==
    /\ pc = "loop"
    /\ idx <= Len(sources)
    /\ ~PathExists(fs, sources[idx])
    /\ error' = "ValueError"
    /\ exit_code' = 1
    /\ pc' = "done"
    /\ UNCHANGED <<fs, sources, filter, idx, convert_files, runner, handed>>

LoopFile ==
    /\ pc = "loop"
    /\ idx <= Len(sources)
    /\ PathExists(fs, sources[idx])
    /\ IsFile(fs, sources[idx])
    /\ convert_files' = Append(convert_files, sources[idx])
    /\ idx' = idx + 1
    /\ UNCHANGED <<fs, sources, filter, pc, runner, handed, error, exit_code>>

LoopDir ==
    /\ pc = "loop"
    /\ idx <= Len(sources)
    /\ PathExists(fs, sources[idx])
    /\ ~IsFile(fs, sources[idx])
    /\ \E found \in Orders(Glob(fs, sources[idx], filter)) :
           convert_files' = convert_files \o found
    /\ idx' = idx + 1
    /\ UNCHANGED <<fs, sources, filter, pc, runner, handed, error, exit_code>>

BuildRunner ==
    /\ pc = "loop"
    /\ idx > Len(sources)
    /\ runner' = "built"
    /\ pc' = "with_files"
    /\ UNCHANGED <<fs, sources, filter, idx, convert_files, handed, error, exit_code>>

WithFiles ==
    /\ pc = "with_files"
    /\ handed' = convert_files
    /\ runner' = "ran"
    /\ pc' = "return"
    /\ UNCHANGED <<fs, sources, filter, idx, convert_files, error, exit_code>>

Return ==
    /\ pc = "return"
    /\ exit_code' = 0
    /\ pc' = "done"
    /\ UNCHANGED <<fs, sources, filter, idx, convert_files, runner, handed, error>>

NextMain ==
    \/ ParseArgs /\ UNCHANGED fromVars
    \/ LoopMissing /\ UNCHANGED fromVars
    \/ LoopFile /\ UNCHANGED fromVars
    \/ LoopDir /\ UNCHANGED fromVars
    \/ BuildRunner /\ UNCHANGED fromVars
    \/ WithFiles /\ UNCHANGED fromVars
    \/ Return /\ UNCHANGED fromVars

InitMain == MainStart /\ FromIdle

SpecMain == InitMain /\ [][NextMain]_vars

(***************************************************************************)
(* Properties of the convert subcommand                                    *)
(***************************************************************************)
SomeSourceMissing ==
    \E k \in 1..Len(sources) : fs[sources[k]] = "missing"

\* C7: when a source path does not exist, wherever it stands in the list,
\* the Runner is never built, no file is handed over for conversion, main
\* ends by raising and the exit status is not zero.
C7_MissingPathFailsFirst ==
    (pc # "parse" /\ SomeSourceMissing) =>
        /\ runner = "none"
        /\ handed = <<>>
        /\ exit_code # 0
        /\ pc \in {"loop", "done"}
        /\ pc = "done" => (error = "ValueError" /\ exit_code = 1)

C7_Witness ==
    /\ pc = "done"
    /\ error = "ValueError"
    /\ Len(sources) = 2
    /\ fs[sources[1]] = "file"
    /\ fs[sources[2]] = "missing"
    /\ convert_files = <<sources[1]>>
    /\ runner = "none"

HasPatternExt(p) == p.ext = filter.ext

\* C8: every file passed to Runner.with_files matches the filter pattern.
C8_AllHandedMatchFilter ==
    runner = "ran" => \A i \in 1..Len(handed) : HasPatternExt(handed[i])

IsFileSource(p) ==
    \E k \in 1..Len(sources) : sources[k] = p /\ fs[p] = "file"

IsBelowDirSource(p) ==
    \E k \in 1..Len(sources) :
        /\ fs[sources[k]] = "dir"
        /\ p # CWD
        /\ \/ p.parent = sources[k].name
           \/ (sources[k] = CWD /\ filter.recursive)

\* C8 amended: every path passed to Runner.with_files is either a source
\* that is itself a file, passed as given, or an entry found below a
\* directory source that matches the filter pattern.
C8_HandedFilteredBelowDirs ==
    runner = "ran" =>
        \A i \in 1..Len(handed) :
            \/ IsFileSource(handed[i])
            \/ (IsBelowDirSource(handed[i]) /\ HasPatternExt(handed[i]))

C8_Witness ==
    /\ runner = "ran"
    /\ \E i \in 1..Len(handed) :
           IsFileSource(handed[i]) /\ ~HasPatternExt(handed[i])
    /\ \E j \in 1..Len(handed) :
           ~IsFileSource(handed[j]) /\ HasPatternExt(handed[j])

====
